---------------------------- MODULE Spec2Model ----------------------------
(***************************************************************************)
(* A model of the Discord notification action (src/index.js).              *)
(*                                                                         *)
(* A JavaScript string is a sequence of UTF-16 code units.  A code unit is *)
(* a TLA+ string: the character itself for ASCII ("a"), and "U+XXXX" for   *)
(* any other unit, so that length, substring, replace and toLowerCase are  *)
(* computed on code units exactly as the engine computes them.             *)
(***************************************************************************)
EXTENDS Integers, Sequences, FiniteSets, TLC

\* A string literal as a sequence of its code units.
S(s) == [i \in 1..Len(s) |-> SubSeq(s, i, i)]

\* n copies of the code unit c.
Repeat(c, n) == [i \in 1..n |-> c]

Min(a, b) == IF a < b THEN a ELSE b

\* The value `undefined` where a string is expected (never a code-unit sequence).
Undefined == <<"undefined">>

\* JavaScript truthiness of a string-or-undefined value: '' and undefined are falsy.
Truthy(v) == v # Undefined /\ v # <<>>

\* `${v}` for a string-or-undefined value.
Str(v) == IF v = Undefined THEN S("undefined") ELSE v

\* `${n}` for a non-negative integer.
RECURSIVE NumToStr(_)
NumToStr(n) ==
  IF n < 10 THEN <<SubSeq("0123456789", n + 1, n + 1)>>
  ELSE NumToStr(n \div 10) \o <<SubSeq("0123456789", (n % 10) + 1, (n % 10) + 1)>>

\* String.prototype.substring(0, n)
Substring0(s, n) == SubSeq(s, 1, Min(n, Len(s)))

UpperChars == S("ABCDEFGHIJKLMNOPQRSTUVWXYZ")
LowerChars == S("abcdefghijklmnopqrstuvwxyz")
DigitChars == S("0123456789")

ToLowerChar(c) ==
  IF \E i \in 1..26 : UpperChars[i] = c
  THEN LowerChars[CHOOSE i \in 1..26 : UpperChars[i] = c]
  ELSE c

ToUpperChar(c) ==
  IF \E i \in 1..26 : LowerChars[i] = c
  THEN UpperChars[CHOOSE i \in 1..26 : LowerChars[i] = c]
  ELSE c

\* String.prototype.toLowerCase()
ToLowerCase(s) == [i \in 1..Len(s) |-> ToLowerChar(s[i])]

\* s.startsWith(p) at offset k (0-based): p occurs in s at k.
OccursAt(s, p, k) ==
  /\ k + Len(p) <= Len(s)
  /\ \A j \in 1..Len(p) : s[k + j] = p[j]

\* String.prototype.replace(pattern, '') with a string pattern: only the first
\* occurrence, wherever it is, is removed.
ReplaceFirstWithEmpty(s, p) ==
  IF \E k \in 0..Len(s) : OccursAt(s, p, k)
  THEN LET k == CHOOSE k \in 0..Len(s) :
                  /\ OccursAt(s, p, k)
                  /\ \A m \in 0..(k - 1) : ~OccursAt(s, p, m)
       IN  SubSeq(s, 1, k) \o SubSeq(s, k + Len(p) + 1, Len(s))
  ELSE s

\* \w of a RegExp without the u flag.
IsWordChar(c) ==
  \/ \E i \in 1..26 : UpperChars[i] = c \/ LowerChars[i] = c
  \/ \E i \in 1..10 : DigitChars[i] = c
  \/ c = "_"

\* eventName.replace(/_/g, ' ')
ReplaceUnderscores(s) == [i \in 1..Len(s) |-> IF s[i] = "_" THEN " " ELSE s[i]]

\* s.replace(/\b\w/g, l => l.toUpperCase()): a word character that follows a
\* non-word character (or starts the string) is upper-cased.
UpperWordStarts(s) ==
  [i \in 1..Len(s) |->
     IF IsWordChar(s[i]) /\ (i = 1 \/ ~IsWordChar(s[i - 1]))
     THEN ToUpperChar(s[i]) ELSE s[i]]

\* The line feed.
NL == "\n"

\* s.split('\n')[0]
FirstLine(s) ==
  IF \E i \in 1..Len(s) : s[i] = NL
  THEN SubSeq(s, 1, (CHOOSE i \in 1..Len(s) :
                       s[i] = NL /\ \A j \in 1..(i - 1) : s[j] # NL) - 1)
  ELSE s

(***************************************************************************)
(* Numbers that may be NaN or undefined (the embed's color).               *)
(***************************************************************************)
Num(n) == [t |-> "number", v |-> n]
NaN == [t |-> "NaN", v |-> 0]
UndefinedNum == [t |-> "undefined", v |-> 0]

HexLower == S("0123456789abcdef")
HexUpper == S("0123456789ABCDEF")
IsHexDigit(c) == \E i \in 1..16 : HexLower[i] = c \/ HexUpper[i] = c
HexVal(c) == (CHOOSE i \in 1..16 : HexLower[i] = c \/ HexUpper[i] = c) - 1

IsWhiteSpace(c) == c \in {" ", "\t", "\n", "\r"}

RECURSIVE SkipWhiteSpace(_)
SkipWhiteSpace(s) ==
  IF s # <<>> /\ IsWhiteSpace(Head(s)) THEN SkipWhiteSpace(Tail(s)) ELSE s

\* The longest prefix of hexadecimal digits.
RECURSIVE HexPrefix(_)
HexPrefix(s) ==
  IF s # <<>> /\ IsHexDigit(Head(s)) THEN <<Head(s)>> \o HexPrefix(Tail(s)) ELSE <<>>

RECURSIVE HexValue(_)
HexValue(ds) ==
  IF ds = <<>> THEN 0 ELSE 16 * HexValue(SubSeq(ds, 1, Len(ds) - 1)) + HexVal(ds[Len(ds)])

\* parseInt(s, 16): leading white space is skipped, then an optional sign, then
\* an optional 0x/0X, then the longest run of hexadecimal digits; NaN if none.
parseInt16(s) ==
  LET t    == SkipWhiteSpace(s)
      neg  == t # <<>> /\ Head(t) = "-"
      u    == IF t # <<>> /\ Head(t) \in {"-", "+"} THEN Tail(t) ELSE t
      w    == IF Len(u) >= 2 /\ u[1] = "0" /\ u[2] \in {"x", "X"}
              THEN SubSeq(u, 3, Len(u)) ELSE u
      ds   == HexPrefix(w)
  IN  IF ds = <<>> THEN NaN
      ELSE Num(IF neg THEN 0 - HexValue(ds) ELSE HexValue(ds))


(***************************************************************************)
(* Plain-object lookup.  obj[key] on an object literal also finds the      *)
(* properties inherited from Object.prototype; each of them is a function  *)
(* or an object, hence truthy, and has none of the properties the code     *)
(* reads afterwards (emoji, title, description, color, label).             *)
(***************************************************************************)
ObjectPrototypeKeys ==
  { S("constructor"), S("__proto__"), S("hasOwnProperty"), S("isPrototypeOf"),
    S("propertyIsEnumerable"), S("toLocaleString"), S("toString"), S("valueOf"),
    S("__defineGetter__"), S("__defineSetter__"), S("__lookupGetter__"),
    S("__lookupSetter__") }

\* What reading emoji/title/description/color/label of such a member gives.
InheritedMember ==
  [emoji |-> Undefined, title |-> Undefined, description |-> Undefined,
   label |-> Undefined, color |-> UndefinedNum]

Meta(e, t, d, c) ==
  [emoji |-> e, title |-> S(t), description |-> d, label |-> Undefined, color |-> Num(c)]

\* The 13 keys of the metadata table.
EventKinds ==
  { S("push"), S("pull_request"), S("pull_request_review"), S("release"), S("issues"),
    S("issue_comment"), S("workflow_dispatch"), S("schedule"), S("create"), S("delete"),
    S("deployment"), S("deployment_status"), S("workflow_run") }

\* cond ? `${prefix}${v}${suffix}` : fallback
Described(v, prefix, suffix, fallback) ==
  IF Truthy(v) THEN S(prefix) \o v \o S(suffix) ELSE S(fallback)

metadata(eventName, payload) ==
  CASE eventName = S("push") ->
         Meta(<<"U+D83D", "U+DCE4">>, "Push", S("Code pushed to repository"), 222934)
    [] eventName = S("pull_request") ->
         Meta(<<"U+D83D", "U+DD00">>, "Pull Request",
              Described(payload.action, "PR ", "", "Pull Request event"), 7291585)
    [] eventName = S("pull_request_review") ->
         Meta(<<"U+D83D", "U+DC40">>, "PR Review",
              Described(payload.review_state, "Review ", "", "Pull Request reviewed"), 7291585)
    [] eventName = S("release") ->
         Meta(<<"U+D83D", "U+DE80">>, "Release",
              Described(payload.action, "Release ", "", "Release event"), 1548984)
    [] eventName = S("issues") ->
         Meta(<<"U+D83D", "U+DC1B">>, "Issue",
              Described(payload.action, "Issue ", "", "Issue event"), 16612884)
    [] eventName = S("issue_comment") ->
         Meta(<<"U+D83D", "U+DCAC">>, "Issue Comment", S("Comment on issue"), 16612884)
    [] eventName = S("workflow_dispatch") ->
         Meta(<<"U+25B6", "U+FE0F">>, "Manual Trigger", S("Workflow manually triggered"), 222934)
    [] eventName = S("schedule") ->
         Meta(<<"U+23F0">>, "Scheduled Run", S("Workflow triggered by schedule"), 222934)
    [] eventName = S("create") ->
         Meta(<<"U+2728">>, "Branch/Tag Created",
              Described(payload.ref_type, "", " created", "Reference created"), 2664261)
    [] eventName = S("delete") ->
         Meta(<<"U+D83D", "U+DDD1", "U+FE0F">>, "Branch/Tag Deleted",
              Described(payload.ref_type, "", " deleted", "Reference deleted"), 7107965)
    [] eventName = S("deployment") ->
         Meta(<<"U+D83D", "U+DEA2">>, "Deployment", S("Deployment event"), 1548984)
    [] eventName = S("deployment_status") ->
         Meta(<<"U+D83D", "U+DCCA">>, "Deployment Status",
              Described(payload.deployment_status_state, "Deployment ", "",
                        "Deployment status update"), 1548984)
    [] eventName = S("workflow_run") ->
         Meta(<<"U+D83D", "U+DD04">>, "Workflow Run",
              Described(payload.action, "Workflow ", "", "Workflow run event"), 222934)

\* The fallback object of getEventMetadata.
fallbackMetadata(eventName) ==
  [emoji |-> <<"U+D83D", "U+DD14">>,
   title |-> UpperWordStarts(ReplaceUnderscores(eventName)),
   description |-> S("GitHub event triggered"),
   label |-> Undefined,
   color |-> Num(222934)]

\* return metadata[eventName] || { ... }
getEventMetadata(eventName, payload) ==
  IF eventName \in EventKinds THEN metadata(eventName, payload)
  ELSE IF eventName \in ObjectPrototypeKeys THEN InheritedMember
  ELSE fallbackMetadata(eventName)

Style(c, e, l) ==
  [emoji |-> e, title |-> Undefined, description |-> Undefined, label |-> S(l), color |-> Num(c)]

StatusKeys == { S("success"), S("failure"), S("cancelled"), S("skipped") }

styling(key) ==
  CASE key = S("success") -> Style(2664261, <<"U+2705">>, "Success")
    [] key = S("failure") -> Style(14431557, <<"U+274C">>, "Failed")
    [] key = S("cancelled") -> Style(7107965, <<"U+26A0", "U+FE0F">>, "Cancelled")
    [] key = S("skipped") -> Style(16761095, <<"U+23ED", "U+FE0F">>, "Skipped")

\* return styling[status.toLowerCase()] || styling.success
getStatusStyling(status) ==
  LET key == ToLowerCase(status)
  IN  IF key \in StatusKeys THEN styling(key)
      ELSE IF key \in ObjectPrototypeKeys THEN InheritedMember
      ELSE styling(S("success"))

(***************************************************************************)
(* buildEmbed.  A context is                                               *)
(*   [eventName, payload, workflow, runNumber, runId, actor, ref, sha]     *)
(* where workflow, actor, ref and sha are strings or Undefined, and        *)
(* runNumber and runId are numbers, 0 standing for a falsy number (0, or   *)
(* the NaN of a run started without them).  A payload sub-structure is a   *)
(* record with a `present` flag.                                           *)
(***************************************************************************)
TitleCap == 256
DescriptionCap == 4096
FooterCap == 2048
FieldNameCap == 256
FieldValueCap == 1024
CommitLineCap == 100
CommitListCap == 3
ShortShaLen == 7

Bullet == "U+2022"

Field(n, v, i) == [name |-> n, value |-> v, inline |-> i]

\* repository?.html_url || ''
repoUrlOf(payload) ==
  IF payload.repository.present /\ Truthy(payload.repository.html_url)
  THEN payload.repository.html_url ELSE <<>>

\* repository?.full_name || 'Unknown Repository'
repoNameOf(payload) ==
  IF payload.repository.present /\ Truthy(payload.repository.full_name)
  THEN payload.repository.full_name ELSE S("Unknown Repository")

\* v || fallback
OrDefault(v, fallback) == IF Truthy(v) THEN v ELSE S(fallback)

isSuccess(jobStatus) == ToLowerCase(jobStatus) = S("success")

\* resolveColor with the status color taking priority over the custom color.
resolveColor_statusFirst(customColor, jobStatus, statusStyle, eventMeta) ==
  IF ~isSuccess(jobStatus) THEN statusStyle.color
  ELSE IF Truthy(customColor) THEN parseInt16(customColor)
  ELSE eventMeta.color

\* Determine color: custom > status-based > event-based
resolveColor(customColor, jobStatus, statusStyle, eventMeta) ==
  IF Truthy(customColor) THEN parseInt16(customColor)
  ELSE IF ~isSuccess(jobStatus) THEN statusStyle.color
  ELSE eventMeta.color

\* resolveTitle emphasizing the status on successful runs too.
resolveTitle_alwaysStatus(customTitle, jobStatus, statusStyle, eventMeta) ==
  IF Truthy(customTitle) THEN customTitle
  ELSE Str(statusStyle.emoji) \o S(" ") \o Str(eventMeta.emoji) \o S(" ")
       \o Str(eventMeta.title) \o S(" ") \o Str(statusStyle.label)

\* Build title
resolveTitle(customTitle, jobStatus, statusStyle, eventMeta) ==
  IF Truthy(customTitle) THEN customTitle
  ELSE IF ~isSuccess(jobStatus)
       THEN Str(statusStyle.emoji) \o S(" ") \o Str(eventMeta.emoji) \o S(" ")
            \o Str(eventMeta.title) \o S(" ") \o Str(statusStyle.label)
       ELSE Str(eventMeta.emoji) \o S(" ") \o Str(eventMeta.title)

\* statusStyle.label.toLowerCase() raises a TypeError when label is undefined.
descriptionThrows(customDescription, jobStatus, statusStyle) ==
  /\ ~Truthy(customDescription)
  /\ ~isSuccess(jobStatus)
  /\ statusStyle.label = Undefined

\* Build description
resolveDescription(customDescription, jobStatus, workflowName, statusStyle, eventMeta) ==
  IF Truthy(customDescription) THEN customDescription
  ELSE IF ~isSuccess(jobStatus)
       THEN S("**") \o workflowName \o S("** workflow ") \o ToLowerCase(statusStyle.label)
            \o <<" ", Bullet, " ">> \o Str(eventMeta.description)
       ELSE S("**") \o workflowName \o <<"*", "*", " ", Bullet, " ">>
            \o Str(eventMeta.description)

repositoryField(payload) ==
  Field(<<"U+D83D", "U+DCE6">> \o S(" Repository"),
        IF repoUrlOf(payload) # <<>>
        THEN S("[") \o repoNameOf(payload) \o S("](") \o repoUrlOf(payload) \o S(")")
        ELSE repoNameOf(payload),
        TRUE)

eventField(eventName) == Field(<<"U+D83D", "U+DD00">> \o S(" Event"), eventName, TRUE)

actorField(actor) ==
  Field(<<"U+D83D", "U+DC64">> \o S(" Actor"), OrDefault(actor, "Unknown"), TRUE)

\* refName.replace('refs/heads/', '').replace('refs/tags/', '')
stripRef(refName) ==
  ReplaceFirstWithEmpty(ReplaceFirstWithEmpty(refName, S("refs/heads/")), S("refs/tags/"))

refField(ref) ==
  Field(<<"U+D83C", "U+DF3F">> \o S(" Ref"), stripRef(OrDefault(ref, "Unknown")), TRUE)

runNumberField(runNumber) ==
  Field(<<"U+D83D", "U+DD22">> \o S(" Run Number"),
        S("#") \o (IF runNumber # 0 THEN NumToStr(runNumber) ELSE S("N/A")),
        TRUE)

\* The Commit field: a sequence of zero or one field.
commitFields(sha, payload) ==
  LET commitSha == OrDefault(sha, "Unknown")
      short     == Substring0(commitSha, ShortShaLen)
      name      == <<"U+D83D", "U+DCDD">> \o S(" Commit")
  IN  IF commitSha # S("Unknown") /\ repoUrlOf(payload) # <<>>
      THEN << Field(name, S("[") \o short \o S("](") \o repoUrlOf(payload)
                          \o S("/commit/") \o commitSha \o S(")"), TRUE) >>
      ELSE IF commitSha # S("Unknown")
      THEN << Field(name, short, TRUE) >>
      ELSE << >>

\* `[#${o.number} - ${o.title}](${o.html_url})`
numberedLink(o) ==
  S("[#") \o NumToStr(o.number) \o S(" - ") \o Str(o.title) \o S("](")
  \o Str(o.html_url) \o S(")")

pullRequestFields(eventName, payload) ==
  IF eventName = S("pull_request") /\ payload.pull_request.present
  THEN << Field(<<"U+D83D", "U+DD17">> \o S(" Pull Request"),
                numberedLink(payload.pull_request), FALSE) >>
  ELSE << >>

\* c => `• ${(c.message?.split('\n')[0] || 'No message').substring(0, 100)}`
commitLine(c) ==
  LET first == IF c.message = Undefined THEN Undefined ELSE FirstLine(c.message)
      msg   == OrDefault(first, "No message")
  IN  <<Bullet, " ">> \o Substring0(msg, CommitLineCap)

\* lines.join('\n')
RECURSIVE JoinLines(_)
JoinLines(lines) ==
  IF lines = <<>> THEN <<>>
  ELSE IF Len(lines) = 1 THEN lines[1]
  ELSE lines[1] \o <<NL>> \o JoinLines(Tail(lines))

\* commitMessages without the slice(0, 3).
commitMessages_noSlice(commits) ==
  JoinLines([i \in 1..Len(commits) |-> commitLine(commits[i])])

\* payload.commits.slice(0, 3).map(...).join('\n')
commitMessages(commits) ==
  JoinLines([i \in 1..Min(CommitListCap, Len(commits)) |-> commitLine(commits[i])])

pushFields(eventName, payload) ==
  IF /\ eventName = S("push")
     /\ payload.commits.present
     /\ Len(payload.commits.items) > 0
     /\ commitMessages(payload.commits.items) # <<>>
  THEN << Field(<<"U+D83D", "U+DCCB">> \o S(" Recent Commits"),
                commitMessages(payload.commits.items), FALSE) >>
  ELSE << >>

releaseFields(eventName, payload) ==
  IF eventName = S("release") /\ payload.release.present
  THEN << Field(<<"U+D83D", "U+DE80">> \o S(" Release"),
                S("[") \o Str(payload.release.tag_name) \o S(" - ")
                \o Str(payload.release.name) \o S("](")
                \o Str(payload.release.html_url) \o S(")"), FALSE) >>
  ELSE << >>

issueFields(eventName, payload) ==
  IF eventName = S("issues") /\ payload.issue.present
  THEN << Field(<<"U+D83D", "U+DC1B">> \o S(" Issue"),
                numberedLink(payload.issue), FALSE) >>
  ELSE << >>

\* detailFields with the event-specific fields pushed before the Commit field.
detailFields_reordered(context) ==
  << repositoryField(context.payload),
     eventField(context.eventName),
     actorField(context.actor),
     refField(context.ref),
     runNumberField(context.runNumber) >>
  \o pullRequestFields(context.eventName, context.payload)
  \o pushFields(context.eventName, context.payload)
  \o releaseFields(context.eventName, context.payload)
  \o issueFields(context.eventName, context.payload)
  \o commitFields(context.sha, context.payload)

\* The fields pushed inside `if (includeDetails) { ... }`, in push order.
detailFields(context) ==
  << repositoryField(context.payload),
     eventField(context.eventName),
     actorField(context.actor),
     refField(context.ref),
     runNumberField(context.runNumber) >>
  \o commitFields(context.sha, context.payload)
  \o pullRequestFields(context.eventName, context.payload)
  \o pushFields(context.eventName, context.payload)
  \o releaseFields(context.eventName, context.payload)
  \o issueFields(context.eventName, context.payload)

\* Add workflow run link
runLinkFields(runId, payload) ==
  IF runId # 0 /\ repoUrlOf(payload) # <<>>
  THEN << Field(<<"U+D83D", "U+DD17">> \o S(" Workflow Run"),
                S("[View Details](") \o repoUrlOf(payload) \o S("/actions/runs/")
                \o NumToStr(runId) \o S(")"), FALSE) >>
  ELSE << >>

\* assembleFields with the run link inside the includeDetails block.
assembleFields_gated(context, includeDetails) ==
  IF includeDetails
  THEN detailFields(context) \o runLinkFields(context.runId, context.payload)
  ELSE << >>


assembleFields(context, includeDetails) ==
  (IF includeDetails THEN detailFields(context) ELSE << >>)
  \o runLinkFields(context.runId, context.payload)

\* validatedField cutting the value one character late.
validatedField_offByOne(f) ==
  Field(Substring0(f.name, FieldNameCap), Substring0(f.value, FieldValueCap + 1), f.inline)

\* Validate and truncate fields to Discord limits
validatedField(f) ==
  Field(Substring0(f.name, FieldNameCap), Substring0(f.value, FieldValueCap), f.inline)

validatedFields(fields) == [i \in 1..Len(fields) |-> validatedField(fields[i])]

truncTitle(title) == Substring0(title, TitleCap)
truncDescription(description) == Substring0(description, DescriptionCap)

footerText(workflowName) ==
  Substring0(S("GitHub Actions ") \o <<Bullet, " ">> \o workflowName, FooterCap)

\* The embed buildEmbed returns, or the TypeError it raises (threw).
Thrown ==
  [threw |-> TRUE, title |-> << >>, description |-> << >>, color |-> UndefinedNum,
   fields |-> << >>, timestamp |-> << >>, footer |-> [text |-> << >>]]

\* (status, title, description, color: jobStatus, customTitle, customDescription,
\* customColor)
buildEmbed(context, status, title, description, color, includeDetails, now) ==
  LET workflowName == OrDefault(context.workflow, "GitHub Actions")
      eventMeta    == getEventMetadata(context.eventName, context.payload)
      statusStyle  == getStatusStyling(status)
  IN  IF descriptionThrows(description, status, statusStyle) THEN Thrown
      ELSE [threw       |-> FALSE,
            title       |-> truncTitle(resolveTitle(title, status,
                                                    statusStyle, eventMeta)),
            description |-> truncDescription(
                              resolveDescription(description, status,
                                                 workflowName, statusStyle, eventMeta)),
            color       |-> resolveColor(color, status, statusStyle, eventMeta),
            fields      |-> validatedFields(assembleFields(context, includeDetails)),
            timestamp   |-> now,
            footer      |-> [text |-> footerText(workflowName)]]

(***************************************************************************)
(* sendDiscordMessage: the URL, the JSON text and its UTF-8 length.        *)
(***************************************************************************)
\* The concatenation of f[lo], ..., f[hi].
RECURSIVE ConcatRange(_, _, _)
ConcatRange(f, lo, hi) ==
  IF lo > hi THEN << >>
  ELSE IF lo = hi THEN f[lo]
  ELSE ConcatRange(f, lo, (lo + hi) \div 2) \o ConcatRange(f, ((lo + hi) \div 2) + 1, hi)

\* The sum of f[lo], ..., f[hi].
RECURSIVE SumRange(_, _, _)
SumRange(f, lo, hi) ==
  IF lo > hi THEN 0
  ELSE IF lo = hi THEN f[lo]
  ELSE SumRange(f, lo, (lo + hi) \div 2) + SumRange(f, ((lo + hi) \div 2) + 1, hi)

\* The value of a code unit: "U+XXXX" is XXXX; any other unit is ASCII.
IsAscii(c) == Len(c) = 1
UnitValue(c) == HexValue(S(SubSeq(c, 3, 6)))
IsHighSurrogate(c) == ~IsAscii(c) /\ UnitValue(c) >= 55296 /\ UnitValue(c) <= 56319
IsLowSurrogate(c) == ~IsAscii(c) /\ UnitValue(c) >= 56320 /\ UnitValue(c) <= 57343

\* The unit at i is half of a well-formed surrogate pair.
InPair(s, i) ==
  \/ IsHighSurrogate(s[i]) /\ i < Len(s) /\ IsLowSurrogate(s[i + 1])
  \/ IsLowSurrogate(s[i]) /\ i > 1 /\ IsHighSurrogate(s[i - 1])

IsLoneSurrogate(s, i) == (IsHighSurrogate(s[i]) \/ IsLowSurrogate(s[i])) /\ ~InPair(s, i)

\* The \uXXXX escape of a unit, in lower-case hexadecimal.
UnicodeEscape(c) == <<"\\", "u">> \o ToLowerCase(S(SubSeq(c, 3, 6)))

\* JSON.stringify of one code unit of a string: the quote, the backslash and the
\* control characters are escaped, and so is a surrogate that has no partner.
JsonUnit(s, i) ==
  CASE s[i] = "\"" -> <<"\\", "\"">>
    [] s[i] = "\\" -> <<"\\", "\\">>
    [] s[i] = "\n" -> <<"\\", "n">>
    [] s[i] = "\r" -> <<"\\", "r">>
    [] s[i] = "\t" -> <<"\\", "t">>
    [] OTHER -> IF IsLoneSurrogate(s, i) THEN UnicodeEscape(s[i]) ELSE <<s[i]>>

\* JSON.stringify of a string.
JsonString(s) ==
  <<"\"">> \o ConcatRange([i \in 1..Len(s) |-> JsonUnit(s, i)], 1, Len(s)) \o <<"\"">>

\* JSON.stringify of a number: NaN is null.
JsonNumber(n) ==
  IF n.t = "NaN" THEN S("null")
  ELSE IF n.v < 0 THEN <<"-">> \o NumToStr(0 - n.v)
  ELSE NumToStr(n.v)

JsonField(f) ==
  S("{\"name\":") \o JsonString(f.name) \o S(",\"value\":") \o JsonString(f.value)
  \o S(",\"inline\":") \o (IF f.inline THEN S("true") ELSE S("false")) \o S("}")

\* The elements of an array, separated by commas.
JsonFields(fields) ==
  ConcatRange([i \in 1..Len(fields) |->
                 (IF i > 1 THEN <<",">> ELSE << >>) \o JsonField(fields[i])],
              1, Len(fields))

\* JSON.stringify({ embeds: [embed] }): a property whose value is undefined is
\* left out.
stringifyPayload(e) ==
  S("{\"embeds\":[{\"title\":") \o JsonString(e.title)
  \o S(",\"description\":") \o JsonString(e.description)
  \o (IF e.color.t = "undefined" THEN << >> ELSE S(",\"color\":") \o JsonNumber(e.color))
  \o S(",\"fields\":[") \o JsonFields(e.fields) \o S("]")
  \o S(",\"timestamp\":") \o JsonString(e.timestamp)
  \o S(",\"footer\":{\"text\":") \o JsonString(e.footer.text) \o S("}}]}")

\* The bytes one code unit takes in UTF-8: a surrogate pair takes four, a
\* surrogate without partner is replaced by U+FFFD.
Utf8UnitLength(s, i) ==
  IF IsAscii(s[i]) THEN 1
  ELSE IF InPair(s, i) THEN 2
  ELSE IF UnitValue(s[i]) < 2048 THEN 2
  ELSE 3

\* The bytes req.write(data) puts on the wire (utf8 is the default encoding).
writtenLength(data) == SumRange([i \in 1..Len(data) |-> Utf8UnitLength(data, i)], 1, Len(data))

\* The letters, digits and signs of a URL scheme.
IsAlpha(c) == \E i \in 1..26 : UpperChars[i] = c \/ LowerChars[i] = c
IsSchemeChar(c) == IsAlpha(c) \/ (\E i \in 1..10 : DigitChars[i] = c) \/ c \in {"+", "-", "."}

\* The index of the colon that ends the scheme of s, or 0 when s has no scheme.
SchemeEnd(s) ==
  IF \E k \in 2..Len(s) : s[k] = ":" /\ IsAlpha(s[1]) /\ \A j \in 2..(k - 1) : IsSchemeChar(s[j])
  THEN CHOOSE k \in 2..Len(s) :
         s[k] = ":" /\ IsAlpha(s[1]) /\ \A j \in 2..(k - 1) : IsSchemeChar(s[j])
  ELSE 0

SpecialSchemes == { S("https"), S("http"), S("ws"), S("wss"), S("ftp") }

RECURSIVE SkipSlashes(_)
SkipSlashes(s) ==
  IF s # << >> /\ Head(s) \in {"/", "\\"} THEN SkipSlashes(Tail(s)) ELSE s

(***************************************************************************)
(* The environments of one run: the context the platform supplies and the  *)
(* raw values of the action's inputs.                                      *)
(***************************************************************************)
\* Bounds of the enumerated environments.
MaxCommits == 5
LongTitleLen == 300
LongValueLen == 2000
LongDescriptionLen == 4100
LongWorkflowLen == 2100
LongMessageLen == 120

BaseRepo == [present |-> TRUE, full_name |-> S("o/r"), html_url |-> S("https://h/o/r")]
NoRepo == [present |-> FALSE, full_name |-> Undefined, html_url |-> Undefined]
Repos ==
  { NoRepo, BaseRepo,
    [BaseRepo EXCEPT !.html_url = Undefined],
    [BaseRepo EXCEPT !.full_name = Undefined] }

NoNumbered == [present |-> FALSE, number |-> 0, title |-> Undefined, html_url |-> Undefined]
APullRequest ==
  [present |-> TRUE, number |-> 42, title |-> S("Fix bug"), html_url |-> S("https://x/42")]
AnIssue ==
  [present |-> TRUE, number |-> 9, title |-> S("Crash"), html_url |-> S("https://x/i/9")]
NoRelease ==
  [present |-> FALSE, tag_name |-> Undefined, name |-> Undefined, html_url |-> Undefined]
ARelease ==
  [present |-> TRUE, tag_name |-> S("v2.0"), name |-> S("Big Release"),
   html_url |-> S("https://x/rel")]
NoCommits == [present |-> FALSE, items |-> << >>]
Commits(msgs) == [present |-> TRUE, items |-> [i \in 1..Len(msgs) |-> [message |-> msgs[i]]]]

\* Commit messages: absent, empty, two lines, and a first line over the cap.
Messages ==
  { Undefined, << >>, S("feat: add\nbody"),
    Repeat("m", LongMessageLen) \o <<NL>> \o S("tail") }

RECURSIVE SeqsUpTo(_, _)
SeqsUpTo(set, n) ==
  IF n = 0 THEN { << >> }
  ELSE LET shorter == SeqsUpTo(set, n - 1)
       IN  shorter \cup { Append(q, x) : q \in { r \in shorter : Len(r) = n - 1 }, x \in set }

BasePayload ==
  [repository |-> BaseRepo, action |-> Undefined, review_state |-> Undefined,
   ref_type |-> Undefined, deployment_status_state |-> Undefined,
   pull_request |-> NoNumbered, commits |-> NoCommits, release |-> NoRelease,
   issue |-> NoNumbered]

BaseContext ==
  [eventName |-> S("push"), payload |-> BasePayload, workflow |-> S("CI"),
   runNumber |-> 7, runId |-> 42, actor |-> S("octocat"),
   ref |-> S("refs/heads/main"), sha |-> S("0123456789abcdef")]

BaseInputs ==
  [webhook_url |-> S("https://d/api/webhooks/1/t"), job_status |-> << >>,
   title |-> << >>, description |-> << >>, color |-> << >>,
   include_details |-> S("true")]

LongEventName == Repeat("e", LongValueLen)

EventNames ==
  EventKinds \cup
  { S("check_run"), S("Push"), S("repository_dispatch"), S("constructor"),
    S("toString") }

StatusInputs ==
  { << >>, S("success"), S("failure"), S("cancelled"), S("skipped"), S("SUCCESS"),
    S("Failure"), S("timed_out"), S("constructor") }

ColorInputs ==
  { << >>, S("00ff00"), S("FFFFFF"), S("0"), S("zzzzzz"), S("1000000"), S("-1"),
    S("#ff0000") }

Refs ==
  { Undefined, << >>, S("refs/heads/main"), S("refs/tags/v1.0"), S("main"),
    S("refs/pull/7/merge"), S("refs/heads/feature/x"),
    S("refs/heads/refs/tags/v1"), S("refs/tags/refs/heads/main") }

Clock == { S("2024-01-01T00:00:00.000Z") }

Env(c, i) == [context |-> c, inputs |-> i]

\* Event kind, status and the overrides.
StyleEnvs(en) ==
  \E e \in EventNames, s \in StatusInputs, c \in ColorInputs,
    t \in { << >>, S("Hi") }, d \in { << >>, S("Desc") } :
    en = Env([BaseContext EXCEPT !.eventName = e],
             [BaseInputs EXCEPT !.job_status = s, !.color = c, !.title = t, !.description = d])

\* What decides which fields there are.
FieldEnvs(en) ==
  \E e \in { S("push"), S("pull_request"), S("release"), S("issues"), S("schedule"),
            S("check_run"), S("pull_request_review") },
    r \in { 0, 42 },
    h \in { Undefined, S("0123456789abcdef"), S("abc") },
    repo \in Repos,
    subs \in SUBSET { "pr", "commits", "release", "issue" },
    d \in { S("true"), S("false") } :
    en = Env([BaseContext EXCEPT
           !.eventName = e, !.runId = r, !.sha = h,
           !.payload = [BasePayload EXCEPT
              !.repository = repo,
              !.pull_request = IF "pr" \in subs THEN APullRequest ELSE NoNumbered,
              !.commits = IF "commits" \in subs
                          THEN Commits(<< S("fix: one"), S("fix: two") >>) ELSE NoCommits,
              !.release = IF "release" \in subs THEN ARelease ELSE NoRelease,
              !.issue = IF "issue" \in subs THEN AnIssue ELSE NoNumbered]],
             [BaseInputs EXCEPT !.include_details = d])

\* The defaults of the context.
ContextEnvs(en) ==
  \E w \in { Undefined, << >>, S("CI") },
    a \in { Undefined, << >>, S("octocat") },
    f \in Refs,
    n \in { 0, 7, 1204 } :
    en = Env([BaseContext EXCEPT !.workflow = w, !.actor = a, !.ref = f, !.runNumber = n],
             BaseInputs)

\* Strings at and over the caps.
TruncationEnvs(en) ==
  \E e \in { S("push"), LongEventName },
    a \in { S("octocat"), Repeat("a", LongValueLen) },
    w \in { S("CI"), Repeat("w", LongWorkflowLen) },
    s \in { S("success"), S("failure") },
    t \in { << >>, S("Hi"), Repeat("t", TitleCap), Repeat("t", LongTitleLen) },
    d \in { << >>, S("Desc"), Repeat("d", DescriptionCap),
            Repeat("d", LongDescriptionLen) } :
    en = Env([BaseContext EXCEPT !.eventName = e, !.workflow = w, !.actor = a],
             [BaseInputs EXCEPT !.job_status = s, !.title = t, !.description = d])

\* Push payloads.
PushEnvs(en) ==
  \E msgs \in SeqsUpTo(Messages, MaxCommits), d \in { S("true"), S("false") } :
    en = Env([BaseContext EXCEPT !.payload = [BasePayload EXCEPT !.commits = Commits(msgs)]],
             [BaseInputs EXCEPT !.include_details = d])

\* What the event descriptions read.
DescriptionEnvs(en) ==
  \E e \in EventKinds,
    a \in { Undefined, S("opened") },
    v \in { Undefined, S("approved") },
    y \in { Undefined, S("branch") },
    ds \in { Undefined, S("success") },
    s \in { S("success"), S("cancelled") } :
    en = Env([BaseContext EXCEPT
           !.eventName = e,
           !.payload = [BasePayload EXCEPT
              !.action = a, !.review_state = v, !.ref_type = y,
              !.deployment_status_state = ds]],
             [BaseInputs EXCEPT !.job_status = s])

\* Raw input values: missing, padded, wrong case.
InputEnvs(en) ==
  \E u \in { << >>, S("  "), S("https://d/api/webhooks/1/t") },
    d \in { << >>, S("true"), S("false"), S("TRUE"), S(" true ") },
    c \in { << >>, S(" 00ff00 "), S("0x00ff00") } :
    en = Env(BaseContext,
             [BaseInputs EXCEPT !.webhook_url = u, !.include_details = d, !.color = c])

\* The environments enumerated.
Envs(en) ==
  \/ StyleEnvs(en) \/ FieldEnvs(en) \/ ContextEnvs(en) \/ TruncationEnvs(en) \/ PushEnvs(en)
  \/ DescriptionEnvs(en) \/ InputEnvs(en)

\* A rocket: one character, two code units, four bytes.
Rocket == <<"U+D83D", "U+DE80">>

WebhookUrls ==
  { << >>, S("https://d/api/webhooks/1/t"), S("http://d/h?wait=true"), S("not a url"),
    S("/api/webhooks/1/t"), S("https://") }

\* Titles with characters of more than one byte; the last is cut inside its rocket.
DeliveryTitles == { << >>, Rocket \o S(" Deployed"), Repeat("t", TitleCap - 1) \o Rocket }

DeliveryDescriptions == { << >>, S("caf") \o <<"U+00E9">> \o S(" \"ok\"") \o NL \o S("a\\b") }

\* The environments of the runs followed through the delivery.
DeliveryEnvs(en) ==
  \E u \in WebhookUrls, s \in { << >>, S("failure"), S("constructor") },
    t \in DeliveryTitles, d \in DeliveryDescriptions :
    en = Env(BaseContext,
             [BaseInputs EXCEPT !.webhook_url = u, !.job_status = s, !.title = t,
                                !.description = d])

\* What the endpoint may answer, and what the transport may report.
StatusCodes == { 200, 204, 299, 300, 404, 500 }
Chunks == { S("oo"), S("ps") }
MaxChunks == 2
TransportErrors == { S("connect ECONNREFUSED"), S("read ECONNRESET") }

(***************************************************************************)
(* run()                                                                   *)
(***************************************************************************)
VARIABLES env, now, pc, webhookUrl, jobStatus, customTitle, customDescription,
          customColor, includeDetails, embed, failed,
          request, requests, conn, response, received, promise, log

vars == << env, now, pc, webhookUrl, jobStatus, customTitle, customDescription,
           customColor, includeDetails, embed, failed,
           request, requests, conn, response, received, promise, log >>

\* What run() read and built.
runVars == << webhookUrl, jobStatus, customTitle, customDescription, customColor,
              includeDetails, embed >>

\* The request, the exchange on its connection and the promise of the delivery.
sendVars == << request, requests, conn, response, received, promise >>

RECURSIVE TrimEnd(_)
TrimEnd(s) ==
  IF s # << >> /\ IsWhiteSpace(s[Len(s)]) THEN TrimEnd(SubSeq(s, 1, Len(s) - 1)) ELSE s

\* core.getInput(name): the raw value, or '' when unset, with white space trimmed.
getInput(raw) == TrimEnd(SkipWhiteSpace(raw))

NoEmbed ==
  [threw |-> FALSE, title |-> << >>, description |-> << >>, color |-> UndefinedNum,
   fields |-> << >>, timestamp |-> << >>, footer |-> [text |-> << >>]]

NoRequest ==
  [url |-> << >>, method |-> "", headers |-> [ContentType |-> "", ContentLength |-> 0],
   written |-> << >>, ended |-> FALSE]

\* complete: the whole message was received (res.complete).
NoResponse == [statusCode |-> 0, responseData |-> << >>, complete |-> FALSE]

NoError == [kind |-> "none", message |-> << >>]

\* Before any run: nothing read, built, sent or reported.
Idle ==
  /\ now \in Clock
  /\ pc = "start"
  /\ webhookUrl = << >>
  /\ jobStatus = << >>
  /\ customTitle = << >>
  /\ customDescription = << >>
  /\ customColor = << >>
  /\ includeDetails = FALSE
  /\ embed = NoEmbed
  /\ failed = "no"
  /\ request = NoRequest
  /\ requests = 0
  /\ conn = "idle"
  /\ response = NoResponse
  /\ received = << >>
  /\ promise = [state |-> "none", error |-> NoError]
  /\ log = << >>

Init == Envs(env) /\ Idle

\* Get inputs
ReadInputs ==
  /\ pc = "start"
  /\ getInput(env.inputs.webhook_url) # << >>
  /\ webhookUrl' = getInput(env.inputs.webhook_url)
  /\ jobStatus' = OrDefault(getInput(env.inputs.job_status), "success")
  /\ customTitle' = getInput(env.inputs.title)
  /\ customDescription' = getInput(env.inputs.description)
  /\ customColor' = getInput(env.inputs.color)
  /\ includeDetails' = (getInput(env.inputs.include_details) = S("true"))
  /\ pc' = "inputs"
  /\ log' = Append(log, "getInput")
  /\ UNCHANGED << env, now, embed, failed >>
  /\ UNCHANGED sendVars

\* getInput('webhook-url', { required: true }) raises; the catch marks the run
\* failed with the error's message.
ReadInputsFails ==
  /\ pc = "start"
  /\ getInput(env.inputs.webhook_url) = << >>
  /\ pc' = "done"
  /\ failed' = "Input required and not supplied: webhook-url"
  /\ log' = Append(log, "setFailed")
  /\ UNCHANGED << env, now >>
  /\ UNCHANGED runVars
  /\ UNCHANGED sendVars

Built ==
  buildEmbed(env.context, jobStatus, customTitle, customDescription, customColor,
             includeDetails, now)

\* Whether that call raises.
BuildThrows == descriptionThrows(customDescription, jobStatus, getStatusStyling(jobStatus))

\* Build embed
BuildEmbed ==
  /\ pc = "inputs"
  /\ ~BuildThrows
  /\ embed' = Built
  /\ pc' = "built"
  /\ log' = Append(log, "buildEmbed")
  /\ UNCHANGED << env, now, webhookUrl, jobStatus, customTitle, customDescription,
                  customColor, includeDetails, failed >>
  /\ UNCHANGED sendVars

\* buildEmbed raises; the catch marks the run failed with the error's message
\* (here its kind).
BuildEmbedThrows ==
  /\ pc = "inputs"
  /\ BuildThrows
  /\ pc' = "done"
  /\ failed' = "TypeError"
  /\ log' = Append(log, "setFailed")
  /\ UNCHANGED << env, now >>
  /\ UNCHANGED runVars
  /\ UNCHANGED sendVars

(***************************************************************************)
(* sendDiscordMessage(webhookUrl, payload)                                 *)
(***************************************************************************)
\* A promise settles once: resolve and reject leave a settled promise alone.
resolve(p) == IF p.state = "pending" THEN [state |-> "resolved", error |-> NoError] ELSE p

reject(p, e) == IF p.state = "pending" THEN [state |-> "rejected", error |-> e] ELSE p

\* An inclusive upper end.
statusOk_through300(statusCode) == statusCode >= 200 /\ statusCode <= 300

\* res.statusCode >= 200 && res.statusCode < 300
statusOk(statusCode) == statusCode >= 200 /\ statusCode < 300

\* new Error(`Discord webhook returned status ${res.statusCode}: ${responseData}`)
statusError(res) ==
  [kind |-> "StatusError",
   message |-> S("Discord webhook returned status ") \o NumToStr(res.statusCode) \o S(": ")
               \o res.responseData]

\* The 'end' handler of the response.
onEnd(p, res) == IF statusOk(res.statusCode) THEN resolve(p) ELSE reject(p, statusError(res))

\* The length in code units, as data.length gives it.
contentLength_codeUnits(data) == Len(data)

\* Buffer.from(data, 'utf8').length
contentLength(data) == SumRange([i \in 1..Len(data) |-> Utf8UnitLength(data, i)], 1, Len(data))

\* A parser that accepts every string.
urlParses_lenient(input) == TRUE

\* new URL(input) with no base returns: the string has a scheme, and after a
\* special scheme a host that is not empty.  Otherwise it raises a TypeError.
urlParses(input) ==
  LET k == SchemeEnd(input)
      rest == SkipSlashes(SubSeq(input, k + 1, Len(input)))
  IN  /\ k > 0
      /\ ToLowerCase(SubSeq(input, 1, k - 1)) \in SpecialSchemes
           => rest # << >> /\ Head(rest) \notin {"?", "#", ":"}

\* A run that sends again after a rejection.
sendCalled_retry == pc = "built" \/ (pc = "awaiting" /\ promise.state = "rejected")

\* run() calls sendDiscordMessage once, with the payload built.
sendCalled == pc = "built"

\* The executor builds the options and the body, creates the request, writes the
\* body and ends the request; the promise is pending.
SendRequest ==
  /\ sendCalled
  /\ urlParses(webhookUrl)
  /\ LET data == stringifyPayload(embed)
     IN  request' = [url |-> webhookUrl, method |-> "POST",
                     headers |-> [ContentType |-> "application/json",
                                  ContentLength |-> contentLength(data)],
                     written |-> data, ended |-> TRUE]
  /\ requests' = requests + 1
  /\ conn' = "sent"
  /\ response' = NoResponse
  /\ received' = << >>
  /\ promise' = [state |-> "pending", error |-> NoError]
  /\ pc' = "awaiting"
  /\ log' = Append(log, "request")
  /\ UNCHANGED << env, now, failed >>
  /\ UNCHANGED runVars

\* new URL raises inside the executor: the promise is rejected with that error
\* before a request exists.
SendInvalidUrl ==
  /\ sendCalled
  /\ ~urlParses(webhookUrl)
  /\ promise' = [state |-> "rejected", error |-> [kind |-> "InvalidURL", message |-> S("Invalid URL")]]
  /\ pc' = "awaiting"
  /\ UNCHANGED << env, now, failed, log, request, requests, conn, response, received >>
  /\ UNCHANGED runVars

\* The request emits 'error' before any response: reject(error).
RequestError ==
  /\ conn = "sent"
  /\ \E cause \in TransportErrors :
       promise' = reject(promise, [kind |-> "TransportError", message |-> cause])
  /\ conn' = "closed"
  /\ UNCHANGED << env, now, pc, failed, log, request, requests, response, received >>
  /\ UNCHANGED runVars

\* The response arrives: the callback starts with an empty responseData.
Response ==
  /\ conn = "sent"
  /\ \E statusCode \in StatusCodes :
       response' = [statusCode |-> statusCode, responseData |-> << >>, complete |-> FALSE]
  /\ conn' = "receiving"
  /\ UNCHANGED << env, now, pc, failed, log, request, requests, received, promise >>
  /\ UNCHANGED runVars

\* res 'data': responseData += chunk
Data ==
  /\ conn = "receiving"
  /\ Len(received) < MaxChunks
  /\ \E chunk \in Chunks :
       /\ response' = [response EXCEPT !.responseData = @ \o chunk]
       /\ received' = Append(received, chunk)
  /\ UNCHANGED << env, now, pc, failed, log, request, requests, conn, promise >>
  /\ UNCHANGED runVars

\* res 'end': the status decides.
End ==
  /\ conn = "receiving"
  /\ response' = [response EXCEPT !.complete = TRUE]
  /\ promise' = onEnd(promise, response)
  /\ conn' = "closed"
  /\ UNCHANGED << env, now, pc, failed, log, request, requests, received >>
  /\ UNCHANGED runVars

\* The socket fails while the body is being received: the request emits 'error'.
SocketError ==
  /\ conn = "receiving"
  /\ \E cause \in TransportErrors :
       promise' = reject(promise, [kind |-> "TransportError", message |-> cause])
  /\ conn' = "closed"
  /\ UNCHANGED << env, now, pc, failed, log, request, requests, response, received >>
  /\ UNCHANGED runVars

\* The connection closes before the body is complete.  The response emits
\* 'aborted' (and 'error', 'close'), for which there is no handler; the request
\* emits no 'error' and the response no 'end'.
ResponseAborted ==
  /\ conn = "receiving"
  /\ conn' = "closed"
  /\ UNCHANGED << env, now, pc, failed, log, request, requests, response, received, promise >>
  /\ UNCHANGED runVars

\* The same on a runtime that still emits 'end' after 'aborted'.
ResponseAbortedThenEnd ==
  /\ conn = "receiving"
  /\ promise' = onEnd(promise, response)
  /\ conn' = "closed"
  /\ UNCHANGED << env, now, pc, failed, log, request, requests, response, received >>
  /\ UNCHANGED runVars

\* The await returns: core.info('Discord notification completed successfully!')
Completed ==
  /\ pc = "awaiting"
  /\ promise.state = "resolved"
  /\ pc' = "done"
  /\ log' = Append(log, "completed")
  /\ UNCHANGED << env, now, failed >>
  /\ UNCHANGED runVars
  /\ UNCHANGED sendVars

\* The await raises: core.setFailed(`Action failed: ${error.message}`)
DeliveryFailed ==
  /\ pc = "awaiting"
  /\ promise.state = "rejected"
  /\ pc' = "done"
  /\ failed' = promise.error.kind
  /\ log' = Append(log, "setFailed")
  /\ UNCHANGED << env, now >>
  /\ UNCHANGED runVars
  /\ UNCHANGED sendVars

\* run() up to the embed, over every environment of the embed.
Next == ReadInputs \/ ReadInputsFails \/ BuildEmbed \/ BuildEmbedThrows

Spec == Init /\ [][Next]_vars

\* The whole of run(), over the environments of the delivery.
RunInit == DeliveryEnvs(env) /\ Idle

RunNext ==
  \/ ReadInputs \/ ReadInputsFails \/ BuildEmbed \/ BuildEmbedThrows
  \/ SendRequest \/ SendInvalidUrl
  \/ RequestError \/ Response \/ Data \/ End \/ SocketError
  \/ ResponseAborted \/ ResponseAbortedThenEnd
  \/ Completed \/ DeliveryFailed

RunSpec == RunInit /\ [][RunNext]_vars

(***************************************************************************)
(* Properties.  They read the embed the run built (pc = "built") and state *)
(* what it must be from the environment and the inputs.                    *)
(***************************************************************************)
ctx == env.context
eventMetaOfRun == getEventMetadata(ctx.eventName, ctx.payload)
statusStyleOfRun == getStatusStyling(jobStatus)
lowerStatus == ToLowerCase(jobStatus)

\* s starts with p.
StartsWith(s, p) == Len(p) <= Len(s) /\ SubSeq(s, 1, Len(p)) = p
\* s without its first n code units.
Drop(s, n) == SubSeq(s, n + 1, Len(s))
\* out is raw cut to cap: unchanged within the cap, else exactly the cap's prefix.
CutTo(out, raw, cap) ==
  /\ Len(out) <= cap
  /\ Len(raw) <= cap => out = raw
  /\ Len(raw) > cap => Len(out) = cap /\ \A i \in 1..cap : out[i] = raw[i]

\* The names of the fields, as the embed shows them.
RepositoryName == <<"U+D83D", "U+DCE6">> \o S(" Repository")
EventName == <<"U+D83D", "U+DD00">> \o S(" Event")
ActorName == <<"U+D83D", "U+DC64">> \o S(" Actor")
RefName == <<"U+D83C", "U+DF3F">> \o S(" Ref")
RunNumberName == <<"U+D83D", "U+DD22">> \o S(" Run Number")
CommitName == <<"U+D83D", "U+DCDD">> \o S(" Commit")
PullRequestName == <<"U+D83D", "U+DD17">> \o S(" Pull Request")
RecentCommitsName == <<"U+D83D", "U+DCCB">> \o S(" Recent Commits")
ReleaseName == <<"U+D83D", "U+DE80">> \o S(" Release")
IssueName == <<"U+D83D", "U+DC1B">> \o S(" Issue")
WorkflowRunName == <<"U+D83D", "U+DD17">> \o S(" Workflow Run")

FieldNames == [i \in 1..Len(embed.fields) |-> embed.fields[i].name]
HasField(n) == \E i \in 1..Len(embed.fields) : embed.fields[i].name = n
FieldNamed(n) == embed.fields[CHOOSE i \in 1..Len(embed.fields) : embed.fields[i].name = n]

\* Both a run identifier and a repository URL are available.
RunLinkAvailable ==
  /\ ctx.runId # 0
  /\ ctx.payload.repository.present
  /\ Truthy(ctx.payload.repository.html_url)

\* C1: the color is the custom color parsed as hexadecimal when there is one,
\* else the status styling color when the lower-cased status is not 'success',
\* else the event metadata color; '00ff00' with 'failure' on 'push' is 0x00ff00.
C1_ColorPriority ==
  pc = "built" =>
    /\ customColor # << >> => embed.color = parseInt16(customColor)
    /\ customColor = << >> /\ lowerStatus # S("success")
         => embed.color = statusStyleOfRun.color
    /\ customColor = << >> /\ lowerStatus = S("success")
         => embed.color = eventMetaOfRun.color
    /\ customColor = S("00ff00") /\ jobStatus = S("failure") /\ ctx.eventName = S("push")
         => embed.color = Num(65280)

C1_Witness ==
  /\ pc = "built"
  /\ customColor = S("00ff00") /\ jobStatus = S("failure") /\ ctx.eventName = S("push")
  /\ embed.color = Num(65280)

\* C2: the color of every embed built is an integer in [0, 0xFFFFFF], whatever
\* the event kind, the job status and the custom color.
C2_ColorInRange ==
  pc = "built" => embed.color.t = "number" /\ embed.color.v \in 0..16777215

\* C3: every string of the embed respects its cap (title 256, description 4096,
\* footer 2048, field name 256, field value 1024); an over-long string is cut to
\* exactly the cap keeping its leading characters, a string within the cap is
\* unchanged, and no over-long string makes the build fail.
C3_Caps ==
  /\ pc = "built" =>
       LET rawFields == assembleFields(ctx, includeDetails)
           workflowName == IF Truthy(ctx.workflow) THEN ctx.workflow ELSE S("GitHub Actions")
       IN  /\ CutTo(embed.title,
                    resolveTitle(customTitle, jobStatus, statusStyleOfRun, eventMetaOfRun), 256)
           /\ CutTo(embed.description,
                    resolveDescription(customDescription, jobStatus, workflowName,
                                       statusStyleOfRun, eventMetaOfRun), 4096)
           /\ CutTo(embed.footer.text,
                    S("GitHub Actions ") \o <<"U+2022", " ">> \o workflowName, 2048)
           /\ Len(embed.fields) = Len(rawFields)
           /\ \A i \in 1..Len(embed.fields) :
                /\ CutTo(embed.fields[i].name, rawFields[i].name, 256)
                /\ CutTo(embed.fields[i].value, rawFields[i].value, 1024)
           /\ customTitle # << >> => CutTo(embed.title, customTitle, 256)
           /\ customDescription # << >> => CutTo(embed.description, customDescription, 4096)
           /\ includeDetails /\ Truthy(ctx.actor)
                => CutTo(embed.fields[3].value, ctx.actor, 1024)
  /\ failed = "TypeError" => statusStyleOfRun.label = Undefined

C3_Witness ==
  /\ pc = "built"
  /\ Len(customTitle) > 256 /\ Len(embed.title) = 256
  /\ Len(customDescription) > 4096 /\ Len(embed.description) = 4096
  /\ Len(ctx.workflow) > 2048 /\ Len(embed.footer.text) = 2048
  /\ includeDetails /\ Len(ctx.actor) > 1024 /\ Len(embed.fields[3].value) = 1024

\* C4: the 'View Details' run link is the last field exactly when a run
\* identifier and a repository URL are both available, whatever includeDetails;
\* with includeDetails false it is then the only field (non-inline, pointing at
\* {repoUrl}/actions/runs/{runId}), and there is no field when either is missing.
C4_RunLink ==
  pc = "built" =>
    /\ HasField(WorkflowRunName) <=> RunLinkAvailable
    /\ RunLinkAvailable => embed.fields[Len(embed.fields)].name = WorkflowRunName
    /\ ~includeDetails => Len(embed.fields) = IF RunLinkAvailable THEN 1 ELSE 0
    /\ ~includeDetails /\ RunLinkAvailable =>
         embed.fields[1] =
           [name |-> WorkflowRunName,
            value |-> S("[View Details](") \o ctx.payload.repository.html_url
                      \o S("/actions/runs/") \o NumToStr(ctx.runId) \o S(")"),
            inline |-> FALSE]

C4_Witness ==
  /\ pc = "built" /\ ~includeDetails /\ RunLinkAvailable
  /\ ctx.eventName = S("pull_request") /\ ctx.payload.pull_request.present
  /\ Len(embed.fields) = 1

\* The one event-specific field name the environment calls for, if any.
EventSpecificNames ==
  IF ctx.eventName = S("pull_request") /\ ctx.payload.pull_request.present
    THEN << PullRequestName >>
  ELSE IF /\ ctx.eventName = S("push") /\ ctx.payload.commits.present
          /\ Len(ctx.payload.commits.items) > 0
    THEN << RecentCommitsName >>
  ELSE IF ctx.eventName = S("release") /\ ctx.payload.release.present
    THEN << ReleaseName >>
  ELSE IF ctx.eventName = S("issues") /\ ctx.payload.issue.present
    THEN << IssueName >>
  ELSE << >>

\* C5: with includeDetails the fields are, in this order, Repository, Event,
\* Actor, Ref, Run Number (always, inline), Commit exactly when the SHA is known
\* (inline), at most one event-specific field for the matching event kind whose
\* payload sub-structure exists (non-inline), and the run link last when present.
C5_FieldOrder ==
  pc = "built" /\ includeDetails =>
    /\ FieldNames =
         << RepositoryName, EventName, ActorName, RefName, RunNumberName >>
         \o (IF Truthy(ctx.sha) THEN << CommitName >> ELSE << >>)
         \o EventSpecificNames
         \o (IF RunLinkAvailable THEN << WorkflowRunName >> ELSE << >>)
    /\ \A i \in 1..Len(embed.fields) :
         embed.fields[i].inline <=>
           embed.fields[i].name \in { RepositoryName, EventName, ActorName, RefName,
                                      RunNumberName, CommitName }

C5_Witness ==
  /\ pc = "built" /\ includeDetails
  /\ Truthy(ctx.sha) /\ RunLinkAvailable
  /\ ctx.eventName = S("release") /\ ctx.payload.release.present
  /\ ctx.payload.pull_request.present /\ ctx.payload.issue.present
  /\ Len(embed.fields) = 8

\* C6: the title is the custom title when there is one (cut to 256 characters);
\* else '<status emoji> <event emoji> <event title> <status label>' when the
\* lower-cased status is not 'success', and '<event emoji> <event title>' when it
\* is (the cap of 256 applies to a generated title as well); 'release' with
\* 'success' gives the rocket followed by ' Release'.
C6_Title ==
  pc = "built" =>
    /\ customTitle # << >> => CutTo(embed.title, customTitle, 256)
    /\ customTitle = << >> /\ lowerStatus # S("success") =>
         CutTo(embed.title,
               Str(statusStyleOfRun.emoji) \o <<" ">> \o Str(eventMetaOfRun.emoji) \o <<" ">>
               \o Str(eventMetaOfRun.title) \o <<" ">> \o Str(statusStyleOfRun.label), 256)
    /\ customTitle = << >> /\ lowerStatus = S("success") =>
         CutTo(embed.title,
               Str(eventMetaOfRun.emoji) \o <<" ">> \o Str(eventMetaOfRun.title), 256)
    /\ customTitle = << >> /\ jobStatus = S("success") /\ ctx.eventName = S("release") =>
         embed.title = <<"U+D83D", "U+DE80", " ", "R", "e", "l", "e", "a", "s", "e">>
    /\ customTitle = << >> /\ jobStatus = S("failure") /\ ctx.eventName = S("push") =>
         embed.title = <<"U+274C", " ", "U+D83D", "U+DCE4", " ", "P", "u", "s", "h", " ",
                         "F", "a", "i", "l", "e", "d">>

C6_Witness ==
  /\ pc = "built" /\ customTitle = << >>
  /\ jobStatus = S("success") /\ ctx.eventName = S("release")
  /\ embed.title = <<"U+D83D", "U+DE80", " ", "R", "e", "l", "e", "a", "s", "e">>

\* The triples of the four recognized statuses.
StatusTriple(key) ==
  CASE key = S("failure") ->
         [color |-> Num(14431557), emoji |-> <<"U+274C">>, label |-> S("Failed")]
    [] key = S("cancelled") ->
         [color |-> Num(7107965), emoji |-> <<"U+26A0", "U+FE0F">>, label |-> S("Cancelled")]
    [] key = S("skipped") ->
         [color |-> Num(16761095), emoji |-> <<"U+23ED", "U+FE0F">>, label |-> S("Skipped")]
    [] OTHER ->
         [color |-> Num(2664261), emoji |-> <<"U+2705">>, label |-> S("Success")]

\* C7: getStatusStyling returns the triple of the lower-cased status for the four
\* recognized statuses and the success triple for every other status string.
C7_StatusStylingTotal ==
  pc # "start" /\ webhookUrl # << >> =>
    LET st == getStatusStyling(jobStatus)
    IN  [color |-> st.color, emoji |-> st.emoji, label |-> st.label]
          = StatusTriple(lowerStatus)

\* The first letter of each space-separated word upper-cased.
SpaceWordsCapitalized(s) ==
  [i \in 1..Len(s) |-> IF i = 1 \/ s[i - 1] = " " THEN ToUpperChar(s[i]) ELSE s[i]]

\* C8: getEventMetadata returns the table entry of each of the 13 listed event
\* kinds, and for every other event kind string the fallback: the bell, 0x0366d6,
\* 'GitHub event triggered', and the kind with underscores replaced by spaces and
\* the first letter of each word upper-cased.
C8_EventMetadataFallback ==
  ctx.eventName \notin EventKinds =>
    /\ eventMetaOfRun.emoji = <<"U+D83D", "U+DD14">>
    /\ eventMetaOfRun.color = Num(222934)
    /\ eventMetaOfRun.description = S("GitHub event triggered")
    /\ eventMetaOfRun.title =
         SpaceWordsCapitalized([i \in 1..Len(ctx.eventName) |->
            IF ctx.eventName[i] = "_" THEN " " ELSE ctx.eventName[i]])

\* The line of one commit: a bullet and at most 100 characters of the first line
\* of its message ('No message' when there is none).
ExpectedCommitLine(c) ==
  LET first == IF c.message = Undefined THEN << >>
               ELSE IF \E i \in 1..Len(c.message) : c.message[i] = "\n"
               THEN SubSeq(c.message, 1,
                           (CHOOSE i \in 1..Len(c.message) :
                              c.message[i] = "\n" /\ \A j \in 1..(i - 1) : c.message[j] # "\n") - 1)
               ELSE c.message
      shown == IF first = << >> THEN S("No message") ELSE first
  IN  <<"U+2022", " ">> \o (IF Len(shown) > 100 THEN SubSeq(shown, 1, 100) ELSE shown)

LineFeeds(s) == Cardinality({ i \in 1..Len(s) : s[i] = "\n" })

\* C9: on a push with includeDetails and n commits, 'Recent Commits' is omitted
\* when n = 0 and is otherwise a non-inline field of exactly min(n, 3) bulleted
\* lines joined by line feeds, line i made from the first line of commit i's
\* message cut to 100 characters, in the original order.
C9_RecentCommits ==
  pc = "built" /\ includeDetails /\ ctx.eventName = S("push") /\ ctx.payload.commits.present =>
    LET items == ctx.payload.commits.items
        n == Len(items)
        l1 == ExpectedCommitLine(items[1])
        l2 == ExpectedCommitLine(items[2])
        l3 == ExpectedCommitLine(items[3])
    IN  /\ HasField(RecentCommitsName) <=> n > 0
        /\ n > 0 =>
             /\ ~FieldNamed(RecentCommitsName).inline
             /\ LineFeeds(FieldNamed(RecentCommitsName).value) + 1 = (IF n < 3 THEN n ELSE 3)
             /\ FieldNamed(RecentCommitsName).value =
                  (IF n = 1 THEN l1
                   ELSE IF n = 2 THEN l1 \o <<"\n">> \o l2
                   ELSE l1 \o <<"\n">> \o l2 \o <<"\n">> \o l3)

C9_Witness ==
  /\ pc = "built" /\ includeDetails /\ ctx.eventName = S("push")
  /\ ctx.payload.commits.present /\ Len(ctx.payload.commits.items) = 5
  /\ Len(ctx.payload.commits.items[2].message) > 100
  /\ HasField(RecentCommitsName)
  /\ LineFeeds(FieldNamed(RecentCommitsName).value) = 2

\* C10: the Ref field shows the ref without a leading 'refs/heads/' or a leading
\* 'refs/tags/', every other character kept; a ref that starts with neither is
\* shown unchanged, and an absent ref is shown as 'Unknown'.
C10_RefPrefixStripped ==
  pc = "built" /\ includeDetails =>
    embed.fields[4].value =
      (IF ~Truthy(ctx.ref) THEN S("Unknown")
       ELSE IF StartsWith(ctx.ref, S("refs/heads/")) THEN Drop(ctx.ref, 11)
       ELSE IF StartsWith(ctx.ref, S("refs/tags/")) THEN Drop(ctx.ref, 10)
       ELSE ctx.ref)

(***************************************************************************)
(* The delivery and the outcome of the run.                                *)
(***************************************************************************)
\* The chunks received so far, joined in the order of their arrival.
ReceivedBody == ConcatRange(received, 1, Len(received))

Settled == promise.state \in { "resolved", "rejected" }

\* The message of the error for a status outside the success range.
ExpectedStatusMessage ==
  S("Discord webhook returned status ") \o NumToStr(response.statusCode) \o S(": ")
  \o ReceivedBody

\* C11: a completed response is classified by its status code alone: the
\* delivery resolves exactly when the status is in 200..299, and for any other
\* status it is rejected with an error whose message carries the status code and
\* the whole body, the received chunks joined in arrival order.  Nothing is
\* decided while the response is still being received.
C11_StatusClassification ==
  /\ conn = "receiving" => promise.state = "pending"
  /\ response.responseData = ReceivedBody
  /\ response.complete =>
       /\ Settled
       /\ promise.state = "resolved" <=> response.statusCode \in 200..299
       /\ promise.state = "rejected" =>
            /\ promise.error.kind = "StatusError"
            /\ promise.error.message = ExpectedStatusMessage

\* A 500 whose body 'oops' came in two chunks has failed the run.
C11_Witness ==
  /\ response.complete
  /\ response.statusCode = 500
  /\ received = << S("oo"), S("ps") >>
  /\ promise.state = "rejected"
  /\ promise.error.message = S("Discord webhook returned status 500: oops")
  /\ pc = "done"

\* The position of a step in the log, 0 when it has not happened.
StepAt(step) ==
  IF \E i \in 1..Len(log) : log[i] = step
  THEN CHOOSE i \in 1..Len(log) : log[i] = step
  ELSE 0

\* C12: a run sends at most one request, and exactly one once the embed is
\* built and the URL parses; no status, body or transport error leads to a
\* second one.  The request is created only after the embed is built.
C12_SingleRequest ==
  /\ requests <= 1
  /\ pc \in { "awaiting", "done" } /\ StepAt("buildEmbed") > 0 /\ urlParses(webhookUrl)
       => requests = 1
  /\ requests > 0 =>
       /\ StepAt("buildEmbed") > 0
       /\ StepAt("buildEmbed") < StepAt("request")
       /\ embed # NoEmbed
       /\ request.ended

\* A run that failed on a transport error after its one request.
C12_Witness == pc = "done" /\ failed = "TransportError" /\ requests = 1

\* The raw URL input has no scheme at all, or a web scheme and nothing after it.
HasNoScheme(u) == ~(\E k \in 1..Len(u) : u[k] = ":")
HasNoHost(u) == u \in { S("https://"), S("http://") }

\* C13: when the webhook URL is missing or is no absolute URL, no request is
\* ever created or written, the run never reports completion and it ends marked
\* failed.
C13_NoRequestWithoutUrl ==
  LET u == getInput(env.inputs.webhook_url)
  IN  HasNoScheme(u) \/ HasNoHost(u) =>
        /\ requests = 0
        /\ request = NoRequest
        /\ conn = "idle"
        /\ StepAt("completed") = 0
        /\ pc = "done" => failed # "no"

\* A run whose URL did not parse has ended failed with nothing sent.
C13_Witness ==
  /\ pc = "done"
  /\ failed = "InvalidURL"
  /\ webhookUrl = S("not a url")
  /\ requests = 0

\* C14: once the exchange on the connection is over, whatever the endpoint and
\* the transport did, the delivery has settled with one outcome.
C14_SettlesOnce ==
  /\ conn = "closed" => Settled
  /\ promise.state = "resolved" => promise.error = NoError
  /\ promise.state = "rejected" => promise.error # NoError

\* C15: buildEmbed never raises, and a missing actor, run number, commit SHA,
\* repository or workflow name shows as its default or leaves its field out.
C15_NoRaiseOnMissingContext ==
  /\ failed # "TypeError"
  /\ pc = "built" /\ ~Truthy(ctx.workflow) =>
       embed.footer.text = S("GitHub Actions ") \o <<Bullet, " ">> \o S("GitHub Actions")
  /\ pc = "built" /\ includeDetails =>
       /\ ~ctx.payload.repository.present => embed.fields[1].value = S("Unknown Repository")
       /\ ~Truthy(ctx.actor) => embed.fields[3].value = S("Unknown")
       /\ ~Truthy(ctx.ref) => embed.fields[4].value = S("Unknown")
       /\ ctx.runNumber = 0 => embed.fields[5].value = S("#N/A")
       /\ ~Truthy(ctx.sha) => ~HasField(CommitName)

\* The bytes of s in UTF-8, counted by kind of code unit: one for each unit, one
\* more from U+0080 on, and one more from U+0800 on unless the unit is half of a
\* surrogate pair.
Utf8Bytes(s) ==
  Len(s)
  + Cardinality({ i \in 1..Len(s) : ~IsAscii(s[i]) })
  + Cardinality({ i \in 1..Len(s) :
                    ~IsAscii(s[i]) /\ UnitValue(s[i]) >= 2048 /\ ~InPair(s, i) })

\* A POST of the JSON text of the embed whose Content-Length counts the bytes
\* of that text in UTF-8.
WellFormedRequest(req, e) ==
  /\ req.method = "POST"
  /\ req.written = stringifyPayload(e)
  /\ req.headers.ContentType = "application/json"
  /\ req.headers.ContentLength = Utf8Bytes(req.written)
  /\ req.headers.ContentLength = writtenLength(req.written)

\* C16: whenever a request is created, its Content-Length header is the number
\* of bytes of the UTF-8 encoding of the JSON text written as its body, and its
\* Content-Type is application/json; a request once created is never altered.
C16_ContentLength ==
  [][/\ request' # request => request = NoRequest /\ WellFormedRequest(request', embed')
     /\ requests' # requests => request' # request]_vars

\* A body with a rocket and an accented letter: more bytes than code units.
C16_Witness ==
  /\ requests = 1
  /\ customTitle = Rocket \o S(" Deployed")
  /\ customDescription # << >>
  /\ request.headers.ContentLength > Len(request.written)

\* The run can go no further: no event of the connection is outstanding and no
\* settled promise is waiting for its await to return.
Stopped ==
  \/ pc = "done"
  \/ pc = "awaiting" /\ conn = "closed" /\ ~Settled

Reports == { i \in 1..Len(log) : log[i] \in { "completed", "setFailed" } }

\* C17: the steps of a run come in the order inputs, embed, request, report; a
\* run never reports twice nor both ways; it is marked failed exactly when
\* reading the URL, building the embed or the delivery raised; completion is
\* logged only after the delivery resolved on a 2xx status; and a run that can
\* go no further has reported once.
C17_OutcomeOnce ==
  /\ \A i \in 1..Len(log) :
       /\ log[i] = "buildEmbed" => i = 2 /\ log[1] = "getInput"
       /\ log[i] = "request" => i = 3 /\ log[2] = "buildEmbed"
       /\ log[i] \in { "completed", "setFailed" } => i = Len(log)
  /\ Cardinality(Reports) <= 1
  /\ StepAt("setFailed") > 0 <=> failed # "no"
  /\ StepAt("completed") > 0 =>
       /\ promise.state = "resolved"
       /\ response.statusCode \in 200..299
       /\ StepAt("request") > 0
  /\ Stopped => Cardinality(Reports) = 1

=============================================================================
